---- MODULE Spec2Model ----
(***************************************************************************)
(* A model of src/python/Timeseries.py: the Timeseries request classes,    *)
(* the TimeseriesCollection registry, the assembly of the combined query   *)
(* and the remap of the engine's flat buffer onto the registered requests. *)
(*                                                                         *)
(* The source is Python 2 (implicit relative import, integer "/"), so the  *)
(* division in compute is floor division.  A numpy array is modelled by    *)
(* the identity of its buffer, its row range and its shape.                *)
(***************************************************************************)
EXTENDS Integers, Sequences, FiniteSets, TLC

\* ------------------------------------------------------------- bounds
\* Largest atom selection handed to a constructor (Dihedral needs 4).
MaxAtoms == 4
\* Largest number of registered timeseries.
MaxLen == 2

\* The frame counts the engine returns: an odd and an even one.
FrameCounts == {1, 2}

\* The request objects of a run (Python object identities).
ObjIds == {"A", "B"}

\* ------------------------------------------------------- the structure
\* An AtomGroup.Atom: the integer identifier and the mass the source reads.
AtomOf(n) == [number |-> n, mass |-> IF n % 2 = 1 THEN 12 ELSE 1]

\* The atoms numbered hi, hi-1, ..., hi-n+1, in that order.
Run(hi, n) == [i \in 1..n |-> AtomOf(hi + 1 - i)]

Selections == UNION {{Run(hi, n) : n \in 0..hi} : hi \in 1..MaxAtoms}

\* What a caller may pass as "atoms": a list, an AtomGroup, a single Atom, or
\* something else (a tuple), which no isinstance branch accepts.
AtomArgs ==
    {[kind |-> k, atoms |-> s] : k \in {"list", "group", "tuple"}, s \in Selections}
        \cup {[kind |-> "atom", atoms |-> <<AtomOf(n)>>] : n \in 1..MaxAtoms}

\* ------------------------------------------------------------ helpers
NoObject == [cls |-> "none"]
\* No array: the attribute is not set. No array has the identity -1.
NoData == [buf |-> -1]
NoAttr == [attr |-> "none"]
Raise(what) == [status |-> "raise", error |-> what]

RECURSIVE Rep(_, _)
\* Python's seq * n.
Rep(s, n) == IF n <= 0 THEN <<>> ELSE s \o Rep(s, n - 1)

RECURSIVE SumSeq(_)
SumSeq(s) == IF s = <<>> THEN 0 ELSE Head(s) + SumSeq(Tail(s))

RECURSIVE MinSeq(_)
MinSeq(s) ==
    IF Len(s) = 1 THEN s[1]
    ELSE LET m == MinSeq(Tail(s)) IN IF s[1] < m THEN s[1] ELSE m

RECURSIVE MaxSeq(_)
MaxSeq(s) ==
    IF Len(s) = 1 THEN s[1]
    ELSE LET m == MaxSeq(Tail(s)) IN IF s[1] > m THEN s[1] ELSE m

\* ------------------------------------------------------- constructors
\* len(atoms) as the fixed-arity constructors call it before the base
\* constructor runs: defined for a list, an AtomGroup and a tuple (a single
\* Atom has no length: the constructors below raise a TypeError for it).
PyLen(arg) == Len(arg.atoms)

\* Timeseries.__init__(code, atoms, dsize): the request, or the exception.
Timeseries_init(cls, code, arg, dsize) ==
    IF arg.kind \in {"group", "list", "atom"}
    THEN [status |-> "ok",
          obj |-> [cls |-> cls, code |-> code, atoms |-> arg.atoms,
                   numatoms |-> Len(arg.atoms), dsize |-> dsize]]
    ELSE Raise("Invalid atoms")

Atom_init(code, arg) ==
    IF code \notin {"x", "y", "z", "v"} THEN Raise("Bad code")
    ELSE LET size == IF code = "v" THEN 3 ELSE 1 IN
         IF arg.kind \in {"group", "list", "atom"}
         THEN LET numatoms == Len(arg.atoms) IN
              Timeseries_init("Atom", Rep(<<code>>, numatoms), arg, size * numatoms)
         ELSE Raise("Invalid atoms")

FixedArity_init(cls, code, n, arg) ==
    IF arg.kind = "atom" THEN Raise("TypeError")
    ELSE IF PyLen(arg) # n THEN Raise("arity")
    ELSE Timeseries_init(cls, <<code>>, arg, 1)

Bond_init(arg) == FixedArity_init("Bond", "r", 2, arg)

Angle_init(arg) == FixedArity_init("Angle", "a", 3, arg)

Dihedral_init(arg) == FixedArity_init("Dihedral", "h", 4, arg)

Distance_init(code, arg) ==
    IF code \notin {"d", "r"} THEN Raise("Bad code")
    ELSE LET size == IF code = "d" THEN 3 ELSE 1 IN
         IF arg.kind = "atom" THEN Raise("TypeError")
         ELSE IF PyLen(arg) # 2 THEN Raise("arity")
         ELSE Timeseries_init("Distance", <<code>>, arg, size)

CenterOfGeometry_init(arg) == Timeseries_init("CenterOfGeometry", <<"m">>, arg, 3)

CenterOfMass_init(arg) == Timeseries_init("CenterOfMass", <<"m">>, arg, 3)

\* A constructor call: the class, its code argument (ignored by the classes
\* that take none), the atoms argument and, for the base class, dsize.
Construct(call) ==
    CASE call.cls = "Atom" -> Atom_init(call.code[1], call.arg)
      [] call.cls = "Bond" -> Bond_init(call.arg)
      [] call.cls = "Angle" -> Angle_init(call.arg)
      [] call.cls = "Dihedral" -> Dihedral_init(call.arg)
      [] call.cls = "Distance" -> Distance_init(call.code[1], call.arg)
      [] call.cls = "CenterOfGeometry" -> CenterOfGeometry_init(call.arg)
      [] call.cls = "CenterOfMass" -> CenterOfMass_init(call.arg)
      [] OTHER -> Timeseries_init("Timeseries", call.code, call.arg, call.dsize)

Variants == {"Atom", "Bond", "Angle", "Dihedral", "Distance", "CenterOfGeometry", "CenterOfMass"}

Call(cls, code, arg, dsize) == [cls |-> cls, code |-> code, arg |-> arg, dsize |-> dsize]

\* Every call of a shipped variant's constructor over the argument sets.
VariantCalls ==
    {Call("Atom", <<c>>, a, 0) : c \in {"x", "y", "z", "v", "q"}, a \in AtomArgs}
        \cup {Call("Distance", <<c>>, a, 0) : c \in {"d", "r", "q"}, a \in AtomArgs}
        \cup {Call(k, <<>>, a, 0) :
                k \in {"Bond", "Angle", "Dihedral", "CenterOfGeometry", "CenterOfMass"},
                a \in AtomArgs}

\* Calls of the base constructor: a two-symbol code over one atom, with
\* declared sizes the code length divides and does not divide.
BaseCalls ==
    {Call("Timeseries", <<"a", "b">>, [kind |-> "list", atoms |-> Run(1, 1)], d) :
        d \in {1, 2, 3, 4}}

\* ---------------------------------------------------------------- state
VARIABLES
    objs,        \* the request objects constructed so far (immutable fields)
    bound,       \* each request's __data__: the view bound by compute
    timeseries,  \* TimeseriesCollection.timeseries: the registered objects
    data,        \* TimeseriesCollection.data: the engine's last buffer 
    atomlist,    \* TimeseriesCollection._atomlist, once _getAtomList has run
    ret          \* the outcome of the last call

vars == <<objs, bound, timeseries, data, atomlist, ret>>

Ok(op, val) == [op |-> op, status |-> "ok", val |-> val]
Failed(op) == [op |-> op, status |-> "raise", val |-> <<>>]

Init ==
    /\ objs = [o \in ObjIds |-> NoObject]
    /\ bound = [o \in ObjIds |-> NoData]
    /\ timeseries = <<>>
    /\ data = NoData
    /\ atomlist = NoAttr
    /\ ret = Ok("init", <<>>)

\* --------------------------------------------------- request accessors
getAtomList(t) == [i \in 1..Len(t.atoms) |-> t.atoms[i].number]
getFormatCode(t) == t.code
getDataSize(t) == t.dsize
\* A slip in Atom.getAtomCounts: [self.numatoms]*self.numatoms.
Atom_getAtomCounts_numatoms(t) == Rep(<<t.numatoms>>, t.numatoms)
Atom_getAtomCounts(t) == Rep(<<1>>, t.numatoms)
getAtomCounts(t) == IF t.cls = "Atom" THEN Atom_getAtomCounts(t) ELSE <<t.numatoms>>
CenterOfMass_getAuxData(t) == [i \in 1..Len(t.atoms) |-> t.atoms[i].mass]
getAuxData(t) ==
    CASE t.cls = "CenterOfGeometry" -> Rep(<<1>>, t.numatoms)
      [] t.cls = "CenterOfMass" -> CenterOfMass_getAuxData(t)
      [] OTHER -> Rep(<<0>>, t.numatoms)

\* ------------------------------------------------- collection queries
RECURSIVE AtomListFrom(_)
\* self._atomlist += ts.getAtomList(), for the requests from position k on.
AtomListFrom(k) ==
    IF k > Len(timeseries) THEN <<>>
    ELSE getAtomList(objs[timeseries[k]]) \o AtomListFrom(k + 1)

RECURSIVE FormatFrom(_)
\* ''.join([ts.getFormatCode() for ts in self.timeseries])
FormatFrom(k) ==
    IF k > Len(timeseries) THEN <<>>
    ELSE getFormatCode(objs[timeseries[k]]) \o FormatFrom(k + 1)

RECURSIVE AtomCountsFrom(_)
\* atomCounts += ts.getAtomCounts()
AtomCountsFrom(k) ==
    IF k > Len(timeseries) THEN <<>>
    ELSE getAtomCounts(objs[timeseries[k]]) \o AtomCountsFrom(k + 1)

RECURSIVE AuxDataFrom(_)
\* auxData += ts.getAuxData()
AuxDataFrom(k) ==
    IF k > Len(timeseries) THEN <<>>
    ELSE getAuxData(objs[timeseries[k]]) \o AuxDataFrom(k + 1)

CollAtomList == AtomListFrom(1)
CollFormat == FormatFrom(1)
CollAtomCounts == AtomCountsFrom(1)
CollAuxData == AuxDataFrom(1)
CollDataSize == SumSeq([k \in 1..Len(timeseries) |-> getDataSize(objs[timeseries[k]])])

\* _getBounds on the cached list: the AttributeError of the missing
\* self.getAtomList when no list was cached yet.
Bounds ==
    IF atomlist = NoAttr THEN Failed("_getBounds")
    ELSE IF Len(atomlist.list) # 0
         THEN Ok("_getBounds", <<MinSeq(atomlist.list), MaxSeq(atomlist.list)>>)
         ELSE Ok("_getBounds", <<0, 0>>)

\* ---------------------------------------------------------- compute
Min(a, b) == IF a < b THEN a ELSE b

\* The identity of an array, as far as the program can tell it apart: the
\* buffer self.data refers to now (Cur), or one an earlier compute returned
\* (Old), which lives on only through the views still bound to it.
Cur == 0
Old == 1

\* What a view becomes when self.data is replaced by a new buffer.
Aged(v) == IF v.buf = Cur THEN [v EXCEPT !.buf = Old] ELSE v

\* self.data[start:start+finish]: numpy clamps a slice to the rows there are.
Slice(d, start, finish) ==
    LET lo == Min(start, d.rows)
        hi == Min(start + finish, d.rows)
    IN [buf |-> d.buf, lo |-> lo, n |-> hi - lo, shape |-> <<hi - lo, d.frames>>]

\* subarray.shape = (datasize, subarray.shape[0]/datasize, -1): Python 2's
\* integer division (a ZeroDivisionError for an empty code), then numpy's rule
\* for the one unknown dimension: the known ones must be non-zero and divide
\* the array's size.
Reshape(sub, datasize) ==
    IF datasize = 0 THEN Raise("ZeroDivisionError")
    ELSE LET q == sub.n \div datasize
             known == datasize * q
             size == sub.shape[1] * sub.shape[2]
         IN IF known = 0 \/ size % known # 0 THEN Raise("ValueError")
            ELSE [status |-> "ok",
                  view |-> [sub EXCEPT !.shape = <<datasize, q, size \div known>>]]

\* A slip in compute: the reshape without its "if datasize != 1".
Bind_alwaysReshape(t, d, start) ==
    Reshape(Slice(d, start, getDataSize(t)), Len(getFormatCode(t)))

\* The view compute binds to one request, or the exception of its reshape.
Bind(t, d, start) ==
    LET finish == getDataSize(t)
        datasize == Len(getFormatCode(t))
        subarray == Slice(d, start, finish)
    IN IF datasize # 1 THEN Reshape(subarray, datasize)
       ELSE [status |-> "ok", view |-> subarray]

\* A slip in compute: the offset advanced as if the slice end were inclusive.
Advance_inclusive(start, finish) == start + finish - 1

\* start += finish
Advance(start, finish) == start + finish

RECURSIVE Remap(_, _, _, _)
\* The loop of compute from position k on: the bindings it leaves, and whether
\* it ran to the end.
Remap(k, start, b, d) ==
    IF k > Len(timeseries) THEN [status |-> "ok", bound |-> b]
    ELSE LET o == timeseries[k]
             r == Bind(objs[o], d, start)
         IN IF r.status # "ok" THEN [status |-> "raise", bound |-> b]
            ELSE Remap(k + 1, Advance(start, getDataSize(objs[o])),
                       [b EXCEPT ![o] = r.view], d)

\* trj.correl(self, start, stop, skip): the engine either raises or returns a
\* buffer of (combined data size, frames); it may read the combined atom list
\* through _getAtomList, which caches it.
Correl(frames, succeeds, readsAtoms) ==
    [status |-> IF succeeds THEN "ok" ELSE "raise",
     data |-> [buf |-> Cur, rows |-> CollDataSize, frames |-> frames],
     atomlist |-> IF readsAtoms THEN [list |-> CollAtomList] ELSE atomlist]

\* ------------------------------------------------------------ actions
\* A constructor call placing its object in the slot o.
New(o, call) ==
    /\ objs[o] = NoObject
    /\ LET r == Construct(call) IN
         IF r.status = "ok"
         THEN objs' = [objs EXCEPT ![o] = r.obj] /\ ret' = Ok("new", <<>>)
         ELSE objs' = objs /\ ret' = Failed("new")
    /\ UNCHANGED <<bound, timeseries, data, atomlist>>

\* A slip in addTimeseries: the added request's binding is reset.
addTimeseries_unbinds(x) ==
    /\ Len(timeseries) < MaxLen
    /\ x \in ObjIds
    /\ objs[x] # NoObject
    /\ timeseries' = Append(timeseries, x)
    /\ bound' = [bound EXCEPT ![x] = NoData]
    /\ ret' = Ok("addTimeseries", <<>>)
    /\ UNCHANGED <<objs, data, atomlist>>

addTimeseries(x) ==
    /\ Len(timeseries) < MaxLen
    /\ IF x \in ObjIds
       THEN /\ objs[x] # NoObject
            /\ timeseries' = Append(timeseries, x)
            /\ ret' = Ok("addTimeseries", <<>>)
       ELSE /\ timeseries' = timeseries
            /\ ret' = Failed("addTimeseries")
    /\ UNCHANGED <<objs, bound, data, atomlist>>

clear ==
    /\ timeseries' = <<>>
    /\ ret' = Ok("clear", <<>>)
    /\ UNCHANGED <<objs, bound, data, atomlist>>

compute(frames, succeeds, readsAtoms) ==
    LET e == Correl(frames, succeeds, readsAtoms) IN
    /\ atomlist' = e.atomlist
    /\ IF e.status # "ok"
       THEN /\ ret' = Failed("compute")
            /\ UNCHANGED <<bound, data>>
       ELSE LET m == Remap(1, 0, [o \in ObjIds |-> Aged(bound[o])], e.data) IN
            /\ data' = e.data
            /\ bound' = m.bound
            /\ ret' = IF m.status = "ok" THEN Ok("compute", <<>>) ELSE Failed("compute")
    /\ UNCHANGED <<objs, timeseries>>

_getAtomList ==
    /\ atomlist' = [list |-> CollAtomList]
    /\ ret' = Ok("_getAtomList", <<>>)
    /\ UNCHANGED <<objs, bound, timeseries, data>>

_getBounds ==
    /\ ret' = Bounds
    /\ UNCHANGED <<objs, bound, timeseries, data, atomlist>>

\* ----------------------------------------------------- specifications
List(s) == [kind |-> "list", atoms |-> s]

\* The requests of the collection's runs: one- and two-atom Atom requests, an
\* Atom request over an empty list, a Bond, a request of the base constructor
\* whose size its code length does not divide, and a call that is refused.
LifeCalls ==
    {Call("Atom", <<"v">>, List(Run(2, 1)), 0),
     Call("Atom", <<"v">>, List(Run(3, 2)), 0),
     Call("Atom", <<"x">>, List(Run(3, 2)), 0),
     Call("Atom", <<"y">>, List(<<>>), 0),
     Call("Bond", <<>>, List(Run(4, 2)), 0),
     Call("Timeseries", <<"a", "b">>, List(Run(1, 1)), 3),
     Call("Angle", <<>>, List(Run(4, 2)), 0)}

\* The engine of these runs does not go through _getAtomList.
Next ==
    \/ \E o \in ObjIds, call \in LifeCalls : New(o, call)
    \/ \E x \in ObjIds \cup {"other"} : addTimeseries(x)
    \/ clear
    \/ \E f \in FrameCounts, ok \in BOOLEAN : compute(f, ok, FALSE)

Spec == Init /\ [][Next]_vars

\* The requests of the runs that assemble the combined query: one of each
\* way the accessors differ (per-atom counts, unit and mass weights), over a
\* list, an AtomGroup and a single Atom.
QueryCalls ==
    {Call("Atom", <<"z">>, List(Run(2, 2)), 0),
     Call("Atom", <<"v">>, List(<<>>), 0),
     Call("CenterOfMass", <<>>, [kind |-> "group", atoms |-> Run(4, 3)], 0),
     Call("CenterOfGeometry", <<>>, [kind |-> "atom", atoms |-> Run(3, 1)], 0),
     Call("Dihedral", <<>>, List(Run(4, 4)), 0),
     Call("Distance", <<"d">>, List(Run(4, 4)), 0)}

NextQuery ==
    \/ \E o \in ObjIds, call \in QueryCalls : New(o, call)
    \/ \E x \in ObjIds \cup {"other"} : addTimeseries(x)
    \/ clear
    \/ _getAtomList

SpecQuery == Init /\ [][NextQuery]_vars

\* The requests of the runs that ask for the bounds.
BoundsCalls ==
    {Call("Atom", <<"z">>, List(Run(2, 2)), 0),
     Call("CenterOfMass", <<>>, [kind |-> "group", atoms |-> Run(4, 3)], 0),
     Call("Bond", <<>>, List(Run(4, 3)), 0)}

NextBounds ==
    \/ \E o \in ObjIds, call \in BoundsCalls : New(o, call)
    \/ \E x \in ObjIds \cup {"other"} : addTimeseries(x)
    \/ clear
    \/ \E ok \in BOOLEAN, reads \in BOOLEAN : compute(1, ok, reads)
    \/ _getAtomList
    \/ _getBounds

SpecBounds == Init /\ [][NextBounds]_vars

\* The constructors alone, over every call of the argument sets.
NextNew == \E o \in ObjIds, call \in VariantCalls \cup BaseCalls : New(o, call)

SpecNew == Init /\ [][NextNew]_vars

\* ================================================================ claims
Registered == {timeseries[i] : i \in DOMAIN timeseries}
Request(i) == objs[timeseries[i]]
LastCall(op) == ret.op = op /\ ret.status = "ok"

\* The row offset of position i: the declared sizes of the positions before it.
Offset(i) == SumSeq([k \in 1..(i - 1) |-> Request(k).dsize])

\* The last position at which the object of position i is registered.
LastPosition(i) ==
    CHOOSE j \in DOMAIN timeseries :
        /\ timeseries[j] = timeseries[i]
        /\ \A k \in DOMAIN timeseries : timeseries[k] = timeseries[i] => k <= j

NoRepeats == \A i, j \in DOMAIN timeseries : timeseries[i] = timeseries[j] => i = j

\* The buffer rows a view reads, in order.
Rows(v) == [k \in 1..v.n |-> v.lo + k - 1]

RECURSIVE FlatRead(_)
\* The rows read through the views of positions 1..i, position by position.
FlatRead(i) == IF i = 0 THEN <<>> ELSE FlatRead(i - 1) \o Rows(bound[timeseries[i]])

RECURSIVE Prod(_)
Prod(s) == IF s = <<>> THEN 1 ELSE Head(s) * Prod(Tail(s))

\* The view of position j of the current buffer: its rows and its elements.
IsViewOfPosition(v, j) ==
    /\ v.buf = Cur
    /\ v.lo = Offset(j)
    /\ v.n = Request(j).dsize
    /\ Prod(v.shape) = v.n * data.frames

\* C1 as stated: after a successful compute the request at every position i
\* is bound to exactly the rows [offset_i, offset_i + dataSize_i) of the
\* buffer, also when the same object is registered at several positions, and
\* reading the views in registration order gives the whole buffer.
C1_EveryPositionBound ==
    LastCall("compute") =>
        /\ \A i \in DOMAIN timeseries : IsViewOfPosition(bound[timeseries[i]], i)
        /\ FlatRead(Len(timeseries)) = [k \in 1..data.rows |-> k - 1]

\* C1 amended: after a successful compute the object at position i is bound
\* to the rows of the LAST position at which it is registered (so to
\* [offset_i, offset_i + dataSize_i) when it is not registered again later),
\* and when no object is registered twice, reading the views in registration
\* order gives every row of the buffer once and in order.
C1_LastPositionBound ==
    LastCall("compute") =>
        /\ data.rows = Offset(Len(timeseries) + 1)
        /\ \A i \in DOMAIN timeseries :
              IsViewOfPosition(bound[timeseries[i]], LastPosition(i))
        /\ NoRepeats => FlatRead(Len(timeseries)) = [k \in 1..data.rows |-> k - 1]

\* Two different requests of different sizes were computed, then one twice.
C1_Witness ==
    /\ LastCall("compute")
    /\ Len(timeseries) = 2
    /\ NoRepeats
    /\ Request(1).dsize # Request(2).dsize
    /\ bound[timeseries[2]].lo > 0

AtomSize(t) == IF t.code[1] = "v" THEN 3 ELSE 1

\* C2 as stated: after a successful compute every registered Atom request
\* over N >= 1 atoms is bound to a view of shape (N, 3, F) for 'v' and
\* (N, 1, F) for 'x', 'y', 'z'.
C2_PerAtomAxisAlways ==
    LastCall("compute") =>
        \A o \in Registered :
            objs[o].cls = "Atom" /\ objs[o].numatoms >= 1 =>
                bound[o].shape = <<objs[o].numatoms, AtomSize(objs[o]), data.frames>>

\* C2 amended: the per-atom axis is there for N >= 2 atoms, shape (N, 3, F)
\* or (N, 1, F); a request over a single atom has a one-symbol code and is
\* bound without the reshape, shape (3, F) or (1, F).
C2_PerAtomAxisFromTwo ==
    LastCall("compute") =>
        \A o \in Registered :
            objs[o].cls = "Atom" /\ objs[o].numatoms >= 1 =>
                bound[o].shape =
                    IF objs[o].numatoms >= 2
                    THEN <<objs[o].numatoms, AtomSize(objs[o]), data.frames>>
                    ELSE <<AtomSize(objs[o]), data.frames>>

\* A two-atom and a one-atom Atom request computed together.
C2_Witness ==
    /\ LastCall("compute")
    /\ \E o, p \in Registered :
          /\ objs[o].cls = "Atom" /\ objs[o].numatoms = 2 /\ Len(bound[o].shape) = 3
          /\ objs[p].cls = "Atom" /\ objs[p].numatoms = 1 /\ Len(bound[p].shape) = 2

\* The smallest and largest identifier of a set of identifiers.
SetBounds(S) ==
    IF S = {} THEN <<0, 0>>
    ELSE <<CHOOSE m \in S : \A n \in S : m <= n, CHOOSE m \in S : \A n \in S : m >= n>>

\* The atom identifiers of the requests registered now.
RegisteredAtoms ==
    UNION {{Request(i).atoms[k].number : k \in DOMAIN Request(i).atoms} : i \in DOMAIN timeseries}

\* C3 as stated: whatever was called before, _getBounds does not fail and
\* returns the (min, max) of the atom identifiers registered now, (0, 0) when
\* there are none.
C3_BoundsOfCurrentRegistration ==
    ret.op = "_getBounds" => ret.status = "ok" /\ ret.val = SetBounds(RegisteredAtoms)

\* C4 as stated: clear leaves the collection empty and no request that was
\* registered and bound keeps its view.
C4_ClearDropsBindings ==
    [][ret'.op = "clear" =>
          /\ Len(timeseries') = 0
          /\ \A o \in Registered : bound[o] # NoData => bound'[o] = NoData]_vars

\* C5 as stated: a compute that fails leaves every request's binding as it
\* was (the same view, of a buffer that self.data may no longer refer to).
C5_FailedComputeBindsNothing ==
    [][ret'.op = "compute" /\ ret'.status = "raise" =>
          \A o \in ObjIds : bound'[o] \in {bound[o], Aged(bound[o])}]_vars

Arity(cls) ==
    CASE cls \in {"Bond", "Distance"} -> {2}
      [] cls = "Angle" -> {3}
      [] cls = "Dihedral" -> {4}
      [] OTHER -> 1..MaxAtoms

\* C6 as stated: a request of a shipped variant exists only with the number
\* of atoms the variant requires: 2, 3 or 4 for the fixed-arity variants, at
\* least one for Atom, CenterOfGeometry and CenterOfMass.
C6_ArityEnforced ==
    \A o \in ObjIds :
        objs[o].cls \in Variants => objs[o].numatoms \in Arity(objs[o].cls)

\* At position i, the combined sequence s holds the part p of request i,
\* where the parts before it have the lengths n[1..i-1].
HoldsAt(s, n, i, p) ==
    LET off == SumSeq([k \in 1..(i - 1) |-> n[k]])
    IN /\ off + Len(p) <= Len(s)
       /\ \A k \in 1..Len(p) : s[off + k] = p[k]

Numatoms == [i \in DOMAIN timeseries |-> Len(Request(i).atoms)]
CodeLens == [i \in DOMAIN timeseries |-> Len(Request(i).code)]

C8_CodeLengthDividesSize ==
    \A o \in ObjIds :
        objs[o].cls \in Variants =>
            /\ Len(objs[o].code) > 0
            /\ objs[o].dsize % Len(objs[o].code) = 0

\* C9 as stated: a request whose code length u > 1 does not divide its
\* declared size is never bound: its reshape fails for every frame count.
C9_UnevenSizeNeverBound ==
    \A o \in ObjIds :
        (/\ objs[o] # NoObject
         /\ Len(objs[o].code) > 1
         /\ objs[o].dsize % Len(objs[o].code) # 0) => bound[o] = NoData

AddStep(o) == ret'.op = "addTimeseries" /\ timeseries' = Append(timeseries, o)

AllRebound == \A o \in Registered : bound[o].buf = Cur

\* C10 as stated: addTimeseries after a successful compute changes no binding
\* and leaves the added request without one; after a successful compute every
\* registered request is bound to the new buffer.
C10_AddedRequestUnbound ==
    [][/\ \A o \in ObjIds :
             LastCall("compute") /\ AddStep(o) => bound' = bound /\ bound'[o] = NoData
       /\ LastCall("compute")' => AllRebound']_vars

\* C10 amended: addTimeseries, after a successful compute or at any other
\* time, changes no binding: the added request is without one only if it had
\* none before (an object registered and computed before keeps its stale
\* view); after a successful compute every registered request is bound to the
\* new buffer.
C10_AddKeepsBindings ==
    [][/\ \A o \in ObjIds :
             AddStep(o) => bound' = bound /\ (bound[o] = NoData <=> bound'[o] = NoData)
       /\ LastCall("compute")' => AllRebound']_vars

\* A request was added after a successful compute: the one registered
\* before keeps its view, the added one has none.
C10_Witness ==
    /\ LastCall("addTimeseries")
    /\ Len(timeseries) = 2
    /\ bound[timeseries[1]].buf = Cur
    /\ bound[timeseries[2]] = NoData

====
